---------------------------- MODULE Spec2Model ----------------------------
(***************************************************************************)
(* A model of the awc package (src/awc/metar.go, src/awc/math.go): the     *)
(* METARQuery builder, the rendering of a query into the request URL and   *)
(* GetMETAR, the one-shot fetch and XML decode.                            *)
(*                                                                         *)
(* Representation.                                                         *)
(*   - A Go pointer field is a sequence: <<>> is nil, <<v>> points to v.   *)
(*   - A float32 is an integer number of ticks, Sub ticks to 0.000001 (the *)
(*     resolution of the %f verb), so that values below the printed        *)
(*     resolution exist.  NaN is not modelled.                             *)
(*   - A Go string is a sequence of tokens; fmt.Sprintf concatenates.      *)
(***************************************************************************)
EXTENDS Integers, Sequences, FiniteSets, TLC

VARIABLES query, recent, call, http

vars == <<query, recent, call, http>>

---------------------------------------------------------------------------
(* Bounds of the model *)

\* longest argument list passed to Fields
MaxFields == 2
\* ticks per 0.000001: the resolution of the modelled float32 values
Sub == 3

---------------------------------------------------------------------------
(* Pointers *)

Nil == <<>>
Ptr(v) == <<v>>
Deref(p) == p[1]

---------------------------------------------------------------------------
(* float32 values and their %f rendering *)

\* the six decimals of the %f verb: 10^6 printed steps to 1.0
Micro == 1000000

\* the float32 n.0, in ticks
F(n) == n * Micro * Sub

\* the smallest positive float32 of the model, below the printed resolution
Tiny == F(0) + 1

\* math.Abs
Abs(value) == IF value < 0 THEN 0 - value ELSE value

\* strconv's rounding of |value| to six decimals (half to even), in 0.000001 steps
RoundMicro(value) ==
    LET a == Abs(value)
        q == a \div Sub
        r == a % Sub
    IN  IF 2 * r > Sub THEN q + 1
        ELSE IF 2 * r = Sub THEN q + (q % 2)
        ELSE q

Pad6(n) ==
    IF n < 10 THEN "00000" \o ToString(n)
    ELSE IF n < 100 THEN "0000" \o ToString(n)
    ELSE IF n < 1000 THEN "000" \o ToString(n)
    ELSE IF n < 10000 THEN "00" \o ToString(n)
    ELSE IF n < 100000 THEN "0" \o ToString(n)
    ELSE ToString(n)

\* fmt's %f of a float32: sign, integer part, six decimals
FormatFloat(value) ==
    LET m == RoundMicro(value)
    IN  (IF value < 0 THEN "-" ELSE "")
            \o ToString(m \div Micro) \o "." \o Pad6(m % Micro)

\* fmt's %d and %t
FormatInt(value) == ToString(value)
FormatBool(value) == IF value THEN "true" ELSE "false"

---------------------------------------------------------------------------
(* math.go *)

keepFloatInRange(value, min, max) ==
    IF value <= min THEN min
    ELSE IF value >= max THEN max
    ELSE value

---------------------------------------------------------------------------
(* METARQuery and its setters *)

\* new(awc.METARQuery): every field nil
NewQuery ==
    [station |-> Nil,
     startTime |-> Nil, endTime |-> Nil,
     hoursBeforeNow |-> Nil,
     mostRecent |-> Nil,
     mostRecentForEachStation |-> Nil,
     rectMinLat |-> Nil, rectMinLon |-> Nil, rectMaxLat |-> Nil, rectMaxLon |-> Nil,
     radRadius |-> Nil, radLat |-> Nil, radLon |-> Nil,
     fields |-> <<>>]

Station(q, value) == [q EXCEPT !.station = Ptr(value)]

\* start and end are the Unix seconds of the two time.Time arguments
Between(q, start, end) ==
    [q EXCEPT !.startTime = Ptr(start),
              !.endTime = Ptr(end),
              !.hoursBeforeNow = Nil]

\* HoursBeforeNow without lines 55-56: the time window is left in place
HoursBeforeNow_KeepsWindow(q, value) ==
    [q EXCEPT !.hoursBeforeNow = Ptr(Abs(value))]

\* HoursBeforeNow without line 51: the sign is kept
HoursBeforeNow_NoAbs(q, value) ==
    [q EXCEPT !.hoursBeforeNow = Ptr(value),
              !.startTime = Nil,
              !.endTime = Nil]

HoursBeforeNow(q, value) ==
    [q EXCEPT !.hoursBeforeNow = Ptr(Abs(value)),
              !.startTime = Nil,
              !.endTime = Nil]

\* MostRecent resetting a field of the time group as well
MostRecent_ClearsHours(q, value) ==
    [q EXCEPT !.mostRecent = Ptr(value),
              !.mostRecentForEachStation = Nil,
              !.hoursBeforeNow = Nil]

MostRecent(q, value) ==
    [q EXCEPT !.mostRecent = Ptr(value),
              !.mostRecentForEachStation = Nil]

MostRecentForEachStation(q, value) ==
    [q EXCEPT !.mostRecentForEachStation = Ptr(value),
              !.mostRecent = Nil]

\* InRectangle clamping minLon with the latitude range
InRectangle_LonAsLat(q, minLat, minLon, maxLat, maxLon) ==
    [q EXCEPT !.rectMinLat = Ptr(keepFloatInRange(minLat, F(-90), F(90))),
              !.rectMinLon = Ptr(keepFloatInRange(minLon, F(-90), F(90))),
              !.rectMaxLat = Ptr(keepFloatInRange(maxLat, F(-90), F(90))),
              !.rectMaxLon = Ptr(keepFloatInRange(maxLon, F(-180), F(180))),
              !.radRadius = Nil,
              !.radLat = Nil,
              !.radLon = Nil]

InRectangle(q, minLat, minLon, maxLat, maxLon) ==
    [q EXCEPT !.rectMinLat = Ptr(keepFloatInRange(minLat, F(-90), F(90))),
              !.rectMinLon = Ptr(keepFloatInRange(minLon, F(-180), F(180))),
              !.rectMaxLat = Ptr(keepFloatInRange(maxLat, F(-90), F(90))),
              !.rectMaxLon = Ptr(keepFloatInRange(maxLon, F(-180), F(180))),
              !.radRadius = Nil,
              !.radLat = Nil,
              !.radLon = Nil]

\* lines 104-107: clamp to [0, 500], then a radius of 0 becomes 1
RadiusOf(radius) ==
    LET r == keepFloatInRange(radius, F(0), F(500))
    IN  IF r = F(0) THEN F(1) ELSE r

\* RadialDistance without line 118: rectMaxLon is left in place
RadialDistance_KeepsMaxLon(q, radius, lat, lon) ==
    [q EXCEPT !.radRadius = Ptr(RadiusOf(radius)),
              !.radLat = Ptr(keepFloatInRange(lat, F(-90), F(90))),
              !.radLon = Ptr(keepFloatInRange(lon, F(-180), F(180))),
              !.rectMinLat = Nil,
              !.rectMinLon = Nil,
              !.rectMaxLat = Nil]

RadialDistance(q, radius, lat, lon) ==
    [q EXCEPT !.radRadius = Ptr(RadiusOf(radius)),
              !.radLat = Ptr(keepFloatInRange(lat, F(-90), F(90))),
              !.radLon = Ptr(keepFloatInRange(lon, F(-180), F(180))),
              !.rectMinLat = Nil,
              !.rectMinLon = Nil,
              !.rectMaxLat = Nil,
              !.rectMaxLon = Nil]

Fields(q, values) == [q EXCEPT !.fields = values]

---------------------------------------------------------------------------
(* endpoint and the rendering of a query *)

endpointMETAR ==
    <<"https://aviationweather.gov/adds/dataserver_current/httpparam?dataSource=metars&requestType=retrieve&format=xml">>

\* each is fmt.Sprintf("%s&%s=<verb>", end, key, value)
addString(end, key, value) == end \o <<"&", key, "=">> \o value
addBool(end, key, value) == end \o <<"&", key, "=", FormatBool(value)>>
addInt(end, key, value) == end \o <<"&", key, "=", FormatInt(value)>>
addFloat(end, key, value) == end \o <<"&", key, "=", FormatFloat(value)>>

\* a join that writes the separator after every element
RECURSIVE Join_Trailing(_, _)
Join_Trailing(elems, sep) ==
    IF Len(elems) = 0 THEN <<>>
    ELSE <<elems[1], sep>> \o Join_Trailing(Tail(elems), sep)

\* strings.Join
RECURSIVE Join(_, _)
Join(elems, sep) ==
    IF Len(elems) = 0 THEN <<>>
    ELSE IF Len(elems) = 1 THEN <<elems[1]>>
    ELSE <<elems[1], sep>> \o Join(Tail(elems), sep)

\* fmt.Sprintf("%f;%f,%f", radius, lon, lat)
RadialValue(radius, lon, lat) ==
    <<FormatFloat(radius), ";", FormatFloat(lon), ",", FormatFloat(lat)>>

buildEndpoint(q) ==
    LET e0 == endpointMETAR
        e1 == IF q.station # Nil
              THEN addString(e0, "stationString", <<Deref(q.station)>>) ELSE e0
        e2 == IF q.startTime # Nil
              THEN addInt(addInt(e1, "startTime", Deref(q.startTime)),
                          "endTime", Deref(q.endTime))
              ELSE e1
        e3 == IF q.hoursBeforeNow # Nil
              THEN addFloat(e2, "hoursBeforeNow", Deref(q.hoursBeforeNow)) ELSE e2
        e4 == IF q.mostRecent # Nil
              THEN addBool(e3, "mostRecent", Deref(q.mostRecent)) ELSE e3
        e5 == IF q.mostRecentForEachStation # Nil
              THEN addString(e4, "mostRecentForEachStation",
                             <<Deref(q.mostRecentForEachStation)>>)
              ELSE e4
        e6 == IF q.rectMinLat # Nil
              THEN addFloat(addFloat(addFloat(addFloat(e5,
                       "minLat", Deref(q.rectMinLat)),
                       "minLon", Deref(q.rectMinLon)),
                       "maxLat", Deref(q.rectMaxLat)),
                       "maxLon", Deref(q.rectMaxLon))
              ELSE e5
        e7 == IF q.radRadius # Nil
              THEN addString(e6, "radialDistance",
                             RadialValue(Deref(q.radRadius), Deref(q.radLon),
                                         Deref(q.radLat)))
              ELSE e6
        e8 == IF Len(q.fields) > 0
              THEN addString(e7, "fields", Join(q.fields, ",")) ELSE e7
    IN  e8

\* the pointer fields buildEndpoint dereferences: each test of lines 131-153
\* guards the dereferences of its branch
Dereferenced(q) ==
    (IF q.station # Nil THEN {"station"} ELSE {})
    \cup (IF q.startTime # Nil THEN {"startTime", "endTime"} ELSE {})
    \cup (IF q.hoursBeforeNow # Nil THEN {"hoursBeforeNow"} ELSE {})
    \cup (IF q.mostRecent # Nil THEN {"mostRecent"} ELSE {})
    \cup (IF q.mostRecentForEachStation # Nil
          THEN {"mostRecentForEachStation"} ELSE {})
    \cup (IF q.rectMinLat # Nil
          THEN {"rectMinLat", "rectMinLon", "rectMaxLat", "rectMaxLon"} ELSE {})
    \cup (IF q.radRadius # Nil THEN {"radRadius", "radLon", "radLat"} ELSE {})

---------------------------------------------------------------------------
(* The HTTP exchange and the XML body, as GetMETAR sees them *)

\* what the network and the server do in one exchange:
\*   ok      http.Get returned a response (no transport error)
\*   status  the response's StatusCode
\*   readOK  io.ReadAll of the body succeeds
\*   doc     the document the body holds
NoDoc == [wellFormed |-> FALSE, root |-> "", errors |-> <<>>, warnings |-> <<>>,
          metars |-> <<>>]

\* a METAR element: station_id is a string field, temp_c a float32 field
Record(id, temp) == [station_id |-> id, temp_c |-> temp]

Document(errors, warnings, metars) ==
    [wellFormed |-> TRUE, root |-> "response", errors |-> errors,
     warnings |-> warnings, metars |-> metars]

\* strconv.ParseFloat on the text of a float32 element
IsNumber(text) == text \in {"", "2.0", "-1.5"}

\* xml.Unmarshal(body, response) into a METARResponse: a syntax error, a root
\* element other than <response> (XMLName) and a non-numeric float field fail
Unmarshal(doc) ==
    IF ~doc.wellFormed THEN [ok |-> FALSE, value |-> Nil]
    ELSE IF doc.root # "response" THEN [ok |-> FALSE, value |-> Nil]
    ELSE IF \E i \in 1..Len(doc.metars) : ~IsNumber(doc.metars[i].temp_c)
         THEN [ok |-> FALSE, value |-> Nil]
    ELSE [ok |-> TRUE,
          value |-> [Errors |-> doc.errors, Warnings |-> doc.warnings,
                     METARs |-> doc.metars]]

\* line 232 with >= for >
UnexpectedStatus_OffByOne(code) == code < 200 \/ code >= 299

\* line 232
UnexpectedStatus(code) == code < 200 \/ code > 299

NoExchange ==
    [requested |-> <<>>, net |-> [ok |-> FALSE, status |-> 0, readOK |-> FALSE,
                                  doc |-> NoDoc],
     body |-> "none", read |-> FALSE, parsed |-> FALSE]

\* GetMETAR returning the half-filled response beside the decode error (line 244)
GetMETAR_PartialOnDecodeError(end, net) ==
    LET x == [requested |-> end, net |-> net, body |-> "none",
              read |-> FALSE, parsed |-> FALSE]
    IN  IF ~net.ok
        THEN [response |-> Nil, err |-> <<"transport">>, http |-> x]
        ELSE IF net.status < 200 \/ net.status > 299
        THEN [response |-> Nil,
              err |-> <<"unexpected status code: ", FormatInt(net.status)>>,
              http |-> [x EXCEPT !.body = "open"]]
        ELSE IF ~net.readOK
        THEN [response |-> Nil, err |-> <<"read">>,
              http |-> [x EXCEPT !.body = "closed", !.read = TRUE]]
        ELSE LET u == Unmarshal(net.doc)
             IN  [response |-> Ptr([Errors |-> net.doc.errors,
                                    Warnings |-> net.doc.warnings,
                                    METARs |-> <<>>]),
                  err |-> IF u.ok THEN Nil ELSE <<"decode">>,
                  http |-> [x EXCEPT !.body = "closed", !.read = TRUE,
                                     !.parsed = TRUE]]

\* GetMETAR, from the http.Get of line 228 on: end is query.buildEndpoint(), net
\* the exchange.  The result is the returned (response, err) and, in http, what
\* happened to the response body.  The deferred Body.Close() is registered at
\* line 236, after the status check: it runs on the returns of lines 239-247.
GetMETAR(end, net) ==
    LET x == [requested |-> end, net |-> net, body |-> "none",
              read |-> FALSE, parsed |-> FALSE]
    IN  IF ~net.ok
        THEN [response |-> Nil, err |-> <<"transport">>, http |-> x]
        ELSE IF UnexpectedStatus(net.status)
        THEN [response |-> Nil,
              err |-> <<"unexpected status code: ", FormatInt(net.status)>>,
              http |-> [x EXCEPT !.body = "open"]]
        ELSE IF ~net.readOK
        THEN [response |-> Nil, err |-> <<"read">>,
              http |-> [x EXCEPT !.body = "closed", !.read = TRUE]]
        ELSE LET u == Unmarshal(net.doc)
             IN  IF ~u.ok
                 THEN [response |-> Nil, err |-> <<"decode">>,
                       http |-> [x EXCEPT !.body = "closed", !.read = TRUE,
                                          !.parsed = TRUE]]
                 ELSE [response |-> Ptr(u.value), err |-> Nil,
                       http |-> [x EXCEPT !.body = "closed", !.read = TRUE,
                                          !.parsed = TRUE]]

---------------------------------------------------------------------------
(* Inputs *)

StationInputs == {"EDDF"}
\* <<start, end>> in Unix seconds; the code does not order them
BetweenInputs == {<<1600000000, 1600003600>>, <<1600003600, 1600000000>>}
HourInputs == {F(-2), F(2), 0 - (F(1) \div 2)}
SelectorInputs == {"constraint", "postfilter"}
FieldNames == {"raw_text", "station_id"}
FieldInputs == UNION {[1..n -> FieldNames] : n \in 0..MaxFields}

\* <<minLat, minLon, maxLat, maxLon>>
RectangleInputs ==
    {<<F(-200), F(-300), F(200), F(300)>>,
     <<F(200), F(300), F(-200), F(-300)>>,
     <<F(-90), F(-180), F(90), F(180)>>,
     <<F(40), F(-10), F(50), F(10)>>,
     <<F(45), F(300), F(-200), F(10)>>}

\* <<radius, lat, lon>>
RadialInputs ==
    {<<F(-10), F(45), F(45)>>,
     <<F(0), F(45), F(45)>>,
     <<Tiny, F(45), F(45)>>,
     <<F(250), F(200), F(-300)>>,
     <<F(500), F(-200), F(300)>>,
     <<F(520), F(-200), F(300)>>}

StatusCodes == {199, 200, 299, 300, 404}

\* the canned body of one error, one warning and one record, and its variants
Canned == Document(<<"e1">>, <<"w1">>, <<Record("EDDF", "2.0")>>)
Docs ==
    {Canned,
     Document(<<>>, <<>>, <<>>),
     Document(<<>>, <<>>, <<Record("EDDF", "-1.5"), Record("KJFK", "")>>),
     Document(<<>>, <<>>, <<Record("EDDF", "abc")>>),
     [Canned EXCEPT !.root = "html"],
     NoDoc}

\* a transport failure; a body that is never looked at under each unexpected
\* status; under each accepted status a failing read and a decodable body, and
\* under 200 every document
Exchanges ==
    {NoExchange.net}
    \cup {[ok |-> TRUE, status |-> s, readOK |-> TRUE, doc |-> Canned] :
             s \in StatusCodes}
    \cup {[ok |-> TRUE, status |-> s, readOK |-> FALSE, doc |-> Canned] :
             s \in {s \in StatusCodes : ~UnexpectedStatus(s)}}
    \cup {[ok |-> TRUE, status |-> 200, readOK |-> TRUE, doc |-> d] : d \in Docs}

---------------------------------------------------------------------------
(* The program: a caller builds a query with the setters and executes it with *)
(* GetMETAR; the next query starts from new(METARQuery).                       *)

\* recent: the setter called last in each mutually-exclusive group (history)
\* call:   the last call made: its name, its arguments, the fields of the query
\*         it reset from set to nil (history), and what GetMETAR returned
\* http:   the HTTP exchange of that call, if it was GetMETAR (history)
PointerFields ==
    {"station", "startTime", "endTime", "hoursBeforeNow", "mostRecent",
     "mostRecentForEachStation", "rectMinLat", "rectMinLon", "rectMaxLat",
     "rectMaxLon", "radRadius", "radLat", "radLon"}

Cleared(q, after) == {f \in PointerFields : q[f] # Nil /\ after[f] = Nil}

Returned(op, args, after) ==
    [op |-> op, args |-> args, cleared |-> Cleared(query, after),
     response |-> Nil, err |-> Nil]

NoneRecent == [time |-> "none", limit |-> "none", spatial |-> "none"]

Init ==
    /\ query = NewQuery
    /\ recent = NoneRecent
    /\ call = [op |-> "new", args |-> <<>>, cleared |-> {}, response |-> Nil,
               err |-> Nil]
    /\ http = NoExchange

\* the caller is still building the query
Building == call.op # "GetMETAR"

\* new(awc.METARQuery)
CallNew ==
    /\ query' = NewQuery
    /\ recent' = NoneRecent
    /\ call' = [op |-> "new", args |-> <<>>, cleared |-> {}, response |-> Nil,
                err |-> Nil]
    /\ http' = NoExchange

CallStation ==
    /\ Building
    /\ \E value \in StationInputs :
        /\ query' = Station(query, value)
        /\ call' = Returned("Station", <<value>>, query')
    /\ http' = NoExchange
    /\ UNCHANGED recent

CallBetween ==
    /\ Building
    /\ \E t \in BetweenInputs :
        /\ query' = Between(query, t[1], t[2])
        /\ call' = Returned("Between", t, query')
    /\ recent' = [recent EXCEPT !.time = "Between"]
    /\ http' = NoExchange

CallHoursBeforeNow ==
    /\ Building
    /\ \E value \in HourInputs :
        /\ query' = HoursBeforeNow(query, value)
        /\ call' = Returned("HoursBeforeNow", <<value>>, query')
    /\ recent' = [recent EXCEPT !.time = "HoursBeforeNow"]
    /\ http' = NoExchange

CallMostRecent ==
    /\ Building
    /\ \E value \in BOOLEAN :
        /\ query' = MostRecent(query, value)
        /\ call' = Returned("MostRecent", <<value>>, query')
    /\ recent' = [recent EXCEPT !.limit = "MostRecent"]
    /\ http' = NoExchange

CallMostRecentForEachStation ==
    /\ Building
    /\ \E value \in SelectorInputs :
        /\ query' = MostRecentForEachStation(query, value)
        /\ call' = Returned("MostRecentForEachStation", <<value>>, query')
    /\ recent' = [recent EXCEPT !.limit = "MostRecentForEachStation"]
    /\ http' = NoExchange

CallInRectangle ==
    /\ Building
    /\ \E r \in RectangleInputs :
        /\ query' = InRectangle(query, r[1], r[2], r[3], r[4])
        /\ call' = Returned("InRectangle", r, query')
    /\ recent' = [recent EXCEPT !.spatial = "InRectangle"]
    /\ http' = NoExchange

CallRadialDistance ==
    /\ Building
    /\ \E r \in RadialInputs :
        /\ query' = RadialDistance(query, r[1], r[2], r[3])
        /\ call' = Returned("RadialDistance", r, query')
    /\ recent' = [recent EXCEPT !.spatial = "RadialDistance"]
    /\ http' = NoExchange

CallFields ==
    /\ Building
    /\ \E values \in FieldInputs :
        /\ query' = Fields(query, values)
        /\ call' = Returned("Fields", values, query')
    /\ http' = NoExchange
    /\ UNCHANGED recent

\* line 228 renders the query once; buildEndpoint has a pointer receiver and
\* assigns to none of its fields
CallGetMETAR ==
    /\ Building
    /\ \E end \in {buildEndpoint(query)} :
        \E net \in Exchanges :
            LET got == GetMETAR(end, net)
            IN  /\ call' = [op |-> "GetMETAR", args |-> <<>>, cleared |-> {},
                            response |-> got.response, err |-> got.err]
                /\ http' = got.http
    /\ UNCHANGED <<query, recent>>

Next ==
    \/ CallNew
    \/ CallStation
    \/ CallBetween
    \/ CallHoursBeforeNow
    \/ CallMostRecent
    \/ CallMostRecentForEachStation
    \/ CallInRectangle
    \/ CallRadialDistance
    \/ CallFields
    \/ CallGetMETAR

Spec == Init /\ [][Next]_vars

---------------------------------------------------------------------------
(* Reading a rendered URL back: its "&key=value" segments *)

RECURSIVE KeysFrom(_, _)
\* the keys of the segments of url from position i on, in order
KeysFrom(url, i) ==
    IF i >= Len(url) THEN <<>>
    ELSE IF url[i] = "&" THEN <<url[i + 1]>> \o KeysFrom(url, i + 1)
    ELSE KeysFrom(url, i + 1)

Amps(url) == {i \in 1..Len(url) : url[i] = "&"}

Keys(url) == {url[i + 1] : i \in {j \in Amps(url) : j < Len(url)}}

\* the value tokens of the first segment of url with this key
ValueOf(url, key) ==
    LET i == CHOOSE j \in Amps(url) :
                 /\ url[j + 1] = key
                 /\ \A k \in Amps(url) : url[k + 1] = key => j <= k
        later == {k \in Amps(url) : k > i}
        stop == IF later = {} THEN Len(url) + 1
                ELSE CHOOSE k \in later : \A m \in later : k <= m
    IN  SubSeq(url, i + 3, stop - 1)

\* the order of the parameters in a rendered URL
ParamOrder ==
    <<"stationString", "startTime", "endTime", "hoursBeforeNow", "mostRecent",
      "mostRecentForEachStation", "minLat", "minLon", "maxLat", "maxLon",
      "radialDistance", "fields">>

\* whether the parameter of this key is set in q
ParamSet(q, key) ==
    CASE key = "stationString" -> q.station # Nil
      [] key = "startTime" -> q.startTime # Nil
      [] key = "endTime" -> q.endTime # Nil
      [] key = "hoursBeforeNow" -> q.hoursBeforeNow # Nil
      [] key = "mostRecent" -> q.mostRecent # Nil
      [] key = "mostRecentForEachStation" -> q.mostRecentForEachStation # Nil
      [] key = "minLat" -> q.rectMinLat # Nil
      [] key = "minLon" -> q.rectMinLon # Nil
      [] key = "maxLat" -> q.rectMaxLat # Nil
      [] key = "maxLon" -> q.rectMaxLon # Nil
      [] key = "radialDistance" ->
            q.radRadius # Nil /\ q.radLat # Nil /\ q.radLon # Nil
      [] key = "fields" -> Len(q.fields) > 0

TimeWindowSet == query.startTime # Nil \/ query.endTime # Nil
RectangleFields == {"rectMinLat", "rectMinLon", "rectMaxLat", "rectMaxLon"}
RadialFields == {"radRadius", "radLat", "radLon"}
RectangleSet == \E f \in RectangleFields : query[f] # Nil
RadialSet == \E f \in RadialFields : query[f] # Nil

---------------------------------------------------------------------------
(* C1 *)

\* C1: after any sequence of setter calls at most one member of each
\* mutually-exclusive group is set (time window / hoursBeforeNow, mostRecent /
\* mostRecentForEachStation, rectangle / radial), the member set is the one of
\* the most recent call in the group, and the URL GetMETAR requests carries the
\* parameters of that member only.
C1_OneMemberPerGroup ==
    /\ ~(TimeWindowSet /\ query.hoursBeforeNow # Nil)
    /\ ~(query.mostRecent # Nil /\ query.mostRecentForEachStation # Nil)
    /\ ~(RectangleSet /\ RadialSet)
    /\ TimeWindowSet <=> recent.time = "Between"
    /\ query.hoursBeforeNow # Nil <=> recent.time = "HoursBeforeNow"
    /\ query.mostRecent # Nil <=> recent.limit = "MostRecent"
    /\ query.mostRecentForEachStation # Nil
           <=> recent.limit = "MostRecentForEachStation"
    /\ RectangleSet <=> recent.spatial = "InRectangle"
    /\ RadialSet <=> recent.spatial = "RadialDistance"
    /\ call.op = "GetMETAR" =>
        LET keys == Keys(http.requested)
        IN  /\ {"startTime", "endTime"} \subseteq keys
                <=> recent.time = "Between"
            /\ {"startTime", "endTime"} \cap keys # {}
                <=> recent.time = "Between"
            /\ "hoursBeforeNow" \in keys <=> recent.time = "HoursBeforeNow"
            /\ "mostRecent" \in keys <=> recent.limit = "MostRecent"
            /\ "mostRecentForEachStation" \in keys
                <=> recent.limit = "MostRecentForEachStation"
            /\ {"minLat", "minLon", "maxLat", "maxLon"} \cap keys # {}
                <=> recent.spatial = "InRectangle"
            /\ "radialDistance" \in keys <=> recent.spatial = "RadialDistance"

\* HoursBeforeNow has just replaced a time window, and stands alone
W_C1_HoursReplacedWindow ==
    /\ call.op = "HoursBeforeNow"
    /\ call.cleared = {"startTime", "endTime"}
    /\ query.hoursBeforeNow # Nil
    /\ query.startTime = Nil /\ query.endTime = Nil
    /\ recent.limit = "MostRecentForEachStation"
    /\ recent.spatial = "InRectangle"

---------------------------------------------------------------------------
(* C2, C3, C8 *)

\* the body decodes as the expected XML
Decodes(doc) ==
    /\ doc.wellFormed
    /\ doc.root = "response"
    /\ \A i \in 1..Len(doc.metars) : doc.metars[i].temp_c \in {"", "2.0", "-1.5"}

\* C2: GetMETAR returns a non-nil response and a nil error exactly when the GET
\* completed, the status is in [200, 299], the body was read and decoded; the
\* response then carries the body's errors and warnings, which do not fail the
\* call.  In every other case it returns a nil response and a non-nil error.
C2_ResponseXorError ==
    call.op = "GetMETAR" =>
        LET net == http.net
            good == /\ net.ok
                    /\ net.status >= 200 /\ net.status <= 299
                    /\ net.readOK
                    /\ Decodes(net.doc)
        IN  /\ (call.response # Nil /\ call.err = Nil) <=> good
            /\ good => /\ Deref(call.response).Errors = net.doc.errors
                       /\ Deref(call.response).Warnings = net.doc.warnings
                       /\ Deref(call.response).METARs = net.doc.metars
            /\ ~good => call.response = Nil /\ call.err # Nil

\* the canned body: one error, one warning, one record, and no call failure
W_C2_CannedBody ==
    /\ call.op = "GetMETAR"
    /\ call.err = Nil
    /\ call.response # Nil
    /\ Len(Deref(call.response).Errors) = 1
    /\ Len(Deref(call.response).Warnings) = 1
    /\ Len(Deref(call.response).METARs) = 1

\* C3: a status below 200 or above 299 fails GetMETAR with the unexpected-status
\* error carrying the code, with no response and the body neither read nor
\* parsed; 200 and 299 are accepted.
C3_UnexpectedStatus ==
    (call.op = "GetMETAR" /\ http.net.ok) =>
        LET code == http.net.status
        IN  /\ (code < 200 \/ code > 299) =>
                /\ call.err = <<"unexpected status code: ", ToString(code)>>
                /\ call.response = Nil
                /\ ~http.read
                /\ ~http.parsed
            /\ code \in {200, 299} =>
                /\ http.read
                /\ (call.err = Nil \/ call.err \in {<<"read">>, <<"decode">>})

\* a 404 whose body is the decodable canned document
W_C3_Status404 ==
    /\ call.op = "GetMETAR"
    /\ http.net.status = 404
    /\ Decodes(http.net.doc)
    /\ call.err = <<"unexpected status code: ", "404">>
    /\ call.response = Nil

\* the returns of lines 239-247, behind the defer of line 236, close the body
BodyClosedBehindDefer ==
    (call.op = "GetMETAR" /\ http.net.ok /\ http.read) => http.body = "closed"

\* C8: on every return of GetMETAR after a completed GET the response body has
\* been closed.
X_C8_BodyClosed ==
    (call.op = "GetMETAR" /\ http.net.ok) => http.body = "closed"

---------------------------------------------------------------------------
(* C4, C5, C6 *)

Max(a, b) == IF a >= b THEN a ELSE b
Min(a, b) == IF a <= b THEN a ELSE b

RadiusValues == {F(-10), F(0), Tiny, F(1), F(250), F(500) - 1, F(500), F(520)}
LatValues == {F(-90) - 1, F(45), F(200)}
LonValues == {F(-300), F(10), F(180) + 1}
HourValues == {Tiny, F(1) \div 2, F(2), F(48)}

\* what RadialDistance stores: the clamped radius, and no rectangle
RadiusStored ==
    call.op = "RadialDistance" =>
        LET radius == call.args[1]
            stored == Deref(query.radRadius)
        IN  /\ stored > F(0) /\ stored <= F(500)
            /\ radius <= F(0) => stored = F(1)
            /\ radius >= F(500) => stored = F(500)
            /\ (radius > F(0) /\ radius < F(500)) => stored = radius
            /\ \A r \in RadiusValues :
                /\ RadiusOf(r) > F(0) /\ RadiusOf(r) <= F(500)
                /\ (r > F(0) /\ r < F(500)) => RadiusOf(r) = r
            /\ \A f \in RectangleFields : query[f] = Nil

\* what GetMETAR sends of it: a radius printed within (0, 500]
RadiusRendered ==
    (call.op = "GetMETAR" /\ query.radRadius # Nil) =>
        LET printed == ValueOf(http.requested, "radialDistance")[1]
        IN  /\ printed \notin {"0.000000", "-0.000000"}
            /\ RoundMicro(Deref(query.radRadius)) <= 500 * Micro

\* C4: every radius passed to RadialDistance is stored and rendered within
\* (0, 500]: a radius <= 0 yields 1, a radius >= 500 yields 500, a radius
\* strictly between is kept; the call clears the bounding rectangle.
X_C4_RadiusPositive == RadiusStored /\ RadiusRendered

\* C5: InRectangle clamps each coordinate by itself, a latitude to
\* max(-90, min(90, lat)) and a longitude to max(-180, min(180, lon)), keeps a
\* value inside its range and orders no corners; InRectangle(-200, -300, 200,
\* 300) renders minLat=-90, minLon=-180, maxLat=90, maxLon=180.
C5_RectangleClamped ==
    /\ call.op = "InRectangle" =>
        /\ query.rectMinLat = Ptr(Max(F(-90), Min(F(90), call.args[1])))
        /\ query.rectMinLon = Ptr(Max(F(-180), Min(F(180), call.args[2])))
        /\ query.rectMaxLat = Ptr(Max(F(-90), Min(F(90), call.args[3])))
        /\ query.rectMaxLon = Ptr(Max(F(-180), Min(F(180), call.args[4])))
        /\ \A a \in LatValues, b \in LonValues, c \in LatValues, d \in LonValues :
            LET after == InRectangle(query, a, b, c, d)
            IN  /\ after.rectMinLat = Ptr(Max(F(-90), Min(F(90), a)))
                /\ after.rectMinLon = Ptr(Max(F(-180), Min(F(180), b)))
                /\ after.rectMaxLat = Ptr(Max(F(-90), Min(F(90), c)))
                /\ after.rectMaxLon = Ptr(Max(F(-180), Min(F(180), d)))
                /\ (a >= F(-90) /\ a <= F(90)) => after.rectMinLat = Ptr(a)
                /\ (d >= F(-180) /\ d <= F(180)) => after.rectMaxLon = Ptr(d)
    /\ (/\ call.op = "GetMETAR"
        /\ query.rectMinLat = Ptr(F(-90)) /\ query.rectMinLon = Ptr(F(-180))
        /\ query.rectMaxLat = Ptr(F(90)) /\ query.rectMaxLon = Ptr(F(180))) =>
        /\ ValueOf(http.requested, "minLat") = <<"-90.000000">>
        /\ ValueOf(http.requested, "minLon") = <<"-180.000000">>
        /\ ValueOf(http.requested, "maxLat") = <<"90.000000">>
        /\ ValueOf(http.requested, "maxLon") = <<"180.000000">>

\* InRectangle(-200, -300, 200, 300) has returned
W_C5_AllFourClamped ==
    /\ call.op = "InRectangle"
    /\ call.args = <<F(-200), F(-300), F(200), F(300)>>
    /\ query.rectMinLat = Ptr(F(-90)) /\ query.rectMinLon = Ptr(F(-180))
    /\ query.rectMaxLat = Ptr(F(90)) /\ query.rectMaxLon = Ptr(F(180))

\* C6: for every h > 0 and every query state HoursBeforeNow(-h) and
\* HoursBeforeNow(h) lead to the same query state and the same rendered URL;
\* the stored hoursBeforeNow is never negative.
C6_HoursMagnitude ==
    /\ query.hoursBeforeNow # Nil => Deref(query.hoursBeforeNow) >= 0
    /\ Building =>
        \A h \in HourValues :
            h > 0 => HoursBeforeNow(query, 0 - h) = HoursBeforeNow(query, h)
    /\ call.op = "HoursBeforeNow" =>
        LET h == call.args[1]
        IN  /\ query.hoursBeforeNow = Ptr(Max(h, 0 - h))
            /\ buildEndpoint(HoursBeforeNow(query, 0 - h))
                   = buildEndpoint(HoursBeforeNow(query, h))
    /\ (call.op = "GetMETAR" /\ query.hoursBeforeNow # Nil) =>
        ValueOf(http.requested, "hoursBeforeNow")
            \in {<<"2.000000">>, <<"0.500000">>}

\* HoursBeforeNow(-2) has returned: the query holds 2 hours
W_C6_NegativeHours ==
    /\ call.op = "HoursBeforeNow"
    /\ call.args = <<F(-2)>>
    /\ query.hoursBeforeNow = Ptr(F(2))

---------------------------------------------------------------------------
(* C7 *)

\* C7: the rendered URL is the base endpoint followed by one "&key=value"
\* segment per set parameter and none per unset one, in the fixed order of
\* ParamOrder whatever the order of the setter calls; the fields segment appears
\* once when the list of the last Fields call is non-empty, its names
\* comma-joined with no trailing separator, and not at all when it is empty.
C7_SegmentsInFixedOrder ==
    /\ call.op = "Fields" => query.fields = call.args
    /\ call.op = "GetMETAR" =>
        LET url == http.requested
            Set(key) == ParamSet(query, key)
            n == Len(query.fields)
        IN  /\ url[1] = "https://aviationweather.gov/adds/dataserver_current/httpparam?dataSource=metars&requestType=retrieve&format=xml"
            /\ Len(url) > 1 => url[2] = "&"
            /\ \A i \in Amps(url) :
                /\ i + 3 <= Len(url)
                /\ url[i + 2] = "="
                /\ url[i + 3] # "&"
            /\ KeysFrom(url, 1) = SelectSeq(ParamOrder, Set)
            /\ n = 0 => "fields" \notin Keys(url)
            /\ n > 0 =>
                LET value == ValueOf(url, "fields")
                IN  /\ Len(value) = 2 * n - 1
                    /\ \A k \in 1..n : value[2 * k - 1] = query.fields[k]
                    /\ \A k \in 1..(n - 1) : value[2 * k] = ","
                    /\ url[Len(url)] = query.fields[n]

\* a query set up out of rendering order, rendered with two fields
W_C7_TwoFieldsRendered ==
    /\ call.op = "GetMETAR"
    /\ query.fields = <<"raw_text", "station_id">>
    /\ KeysFrom(http.requested, 1)
           = <<"stationString", "hoursBeforeNow", "mostRecent", "radialDistance",
               "fields">>
    /\ ValueOf(http.requested, "fields") = <<"raw_text", ",", "station_id">>

---------------------------------------------------------------------------
(* C9, C10 *)

\* C9: the fields of a compound constraint are set or unset together
\* (startTime and endTime; the four rectangle fields; the three radial
\* fields), so buildEndpoint dereferences no unset field.
C9_CompoundFieldsTogether ==
    /\ query.startTime # Nil <=> query.endTime # Nil
    /\ \A f \in RectangleFields, g \in RectangleFields :
        query[f] # Nil <=> query[g] # Nil
    /\ \A f \in RadialFields, g \in RadialFields :
        query[f] # Nil <=> query[g] # Nil
    /\ \A f \in Dereferenced(query) : query[f] # Nil

\* RadialDistance has just replaced a rectangle
W_C9_RadialReplacedRectangle ==
    /\ call.op = "RadialDistance"
    /\ call.cleared = RectangleFields
    /\ \A f \in RadialFields : query[f] # Nil
    /\ query.startTime # Nil

AllFields == PointerFields \cup {"fields"}

\* the fields of the constraint group of a setter
GroupOf(op) ==
    CASE op = "Station" -> {"station"}
      [] op = "Fields" -> {"fields"}
      [] op \in {"Between", "HoursBeforeNow"} ->
            {"startTime", "endTime", "hoursBeforeNow"}
      [] op \in {"MostRecent", "MostRecentForEachStation"} ->
            {"mostRecent", "mostRecentForEachStation"}
      [] op \in {"InRectangle", "RadialDistance"} ->
            RectangleFields \cup RadialFields

Setters ==
    {"Station", "Fields", "Between", "HoursBeforeNow", "MostRecent",
     "MostRecentForEachStation", "InRectangle", "RadialDistance"}

\* C10: a setter changes the fields of its own constraint group only, and
\* rendering a query in GetMETAR changes no field of it.
C10_Frame ==
    [][/\ call'.op \in Setters =>
            \A f \in AllFields \ GroupOf(call'.op) : query'[f] = query[f]
       /\ call'.op = "GetMETAR" => query' = query]_vars

\* Fields has returned on a query with every other group set
W_C10_FieldsOnFullQuery ==
    /\ call.op = "Fields"
    /\ query.fields = <<"station_id", "raw_text">>
    /\ query.station # Nil
    /\ query.startTime # Nil
    /\ query.mostRecent # Nil
    /\ query.rectMinLat # Nil

===========================================================================
